---- MODULE Spec2Model ----
(***************************************************************************)
(* Diagnostic orchestration engine of GridDebugAgent.                       *)
(*                                                                         *)
(*   Spec          the two reasoning-engine loops:                         *)
(*                 AgenticPipelineAgent._run_react_loop   (agent "agentic")*)
(*                 IterativeDebuggerAgent._llm_fix_loop   (agent "iterative")*)
(*                 with their dispatchers _execute_tool.                   *)
(*   SpecPre       Preprocessor.process: EvidenceCollector.collect, then   *)
(*                 RuleEngine.evaluate and RuleEngine.classify_failure.    *)
(*   SpecFallback  IterativeDebuggerAgent._automated_fix_loop, the         *)
(*                 deterministic propose-fix-verify strategy.              *)
(*   SpecDiagnose  IterativeDebuggerAgent.diagnose with either strategy.   *)
(*                                                                         *)
(* Numbers: a load-scaling factor is in percent (0.8 -> 80).               *)
(***************************************************************************)
EXTENDS Integers, Sequences, FiniteSets, TLC

VARIABLES
    agent,          \* "agentic" | "iterative": which class's diagnose() is running
    llm_client,     \* self.llm_client is not None
    max_iterations, \* self.max_iterations (IterativeDebuggerAgent.__init__)
    turn_len,       \* how many tools the reasoning engine asks for in a tool turn
    pc,             \* position in the loop
    i,              \* the loop variable of for i in range(...)
    conversation,   \* the transcript (list of turns)
    log,            \* tool_calls_log (agentic) / fix_history (iterative)
    pending,        \* the tool calls of the current message not yet processed
    response,       \* the value the loop returned
    net,            \* the simulation object
    engine_calls,   \* number of chat.completions.create calls made
    deviations,     \* engine/tool behaviours other than the plain request used so far
    last_dispatch,  \* the most recent _execute_tool call and what it returned
    report,         \* the EvidenceReport of Preprocessor.process
    findings,       \* the triggered RuleResults (context["triggered_rules"])
    category,       \* context["failure_category"]
    rule_order,     \* the order in which evaluate declares its rules
    converged,      \* the local `converged` of _automated_fix_loop
    original_net    \* original_net = copy.deepcopy(net) of diagnose()

prevars == <<report, findings, category, rule_order>>

fbvars == <<converged, original_net>>

loopvars == <<agent, llm_client, max_iterations, turn_len, i, conversation, log,
              pending, response, engine_calls, deviations, last_dispatch, converged,
              original_net>>

\* what the reasoning-engine loops have and the deterministic fallback has not
enginevars == <<llm_client, turn_len, conversation, pending, engine_calls, deviations>>

vars == <<agent, llm_client, max_iterations, turn_len, pc, i, conversation, log,
          pending, response, net, engine_calls, deviations, last_dispatch,
          report, findings, category, rule_order, converged, original_net>>

-----------------------------------------------------------------------------
(* Bounds of the model *)

MaxToolsPerTurn == 2
MaxDeviations == 1
MaxLlmIterations == 1

(* Program constants *)

MAX_TOOL_CALLS == 10
LlmLoopFactor == 3

-----------------------------------------------------------------------------
(* Tool registry *)

AnalysisToolNames ==
    {"get_network_summary", "get_bus_data", "get_line_data", "get_gen_data",
     "get_voltage_profile", "get_loading_profile", "get_power_balance",
     "run_power_flow", "run_dc_power_flow", "run_n1_contingency",
     "run_full_diagnostics", "check_overloads", "check_voltage_violations",
     "find_disconnected_areas"}

ModificationToolNames ==
    {"shed_load", "adjust_generation", "add_reactive_compensation",
     "toggle_element", "adjust_voltage_setpoint", "scale_all_loads"}

\* tool_map entries whose lambda passes **args on to the tool
ToolsTakingArgs ==
    {"get_bus_data", "get_line_data", "get_gen_data", "run_n1_contingency",
     "check_overloads", "check_voltage_violations"} \cup ModificationToolNames

\* a registry that offers the analysis tools only, to both classes
ToolMapAnalysisOnly(a) == AnalysisToolNames

\* a registry that offers the modification tools to both classes
ToolMapWithModifications(a) == AnalysisToolNames \cup ModificationToolNames

\* the keys of tool_map in each class's _execute_tool
ToolMap(a) ==
    IF a = "agentic" THEN AnalysisToolNames
    ELSE AnalysisToolNames \cup ModificationToolNames

-----------------------------------------------------------------------------
(* Inputs: what the reasoning engine may ask for, what a tool may do *)

\* function.arguments: a JSON object fitting the tool, a JSON object that does
\* not fit the tool's parameters, or text that is not JSON
ArgKinds == {"ok", "misfit", "malformed"}

\* what a tool body does once called: return a value, raise, or return a
\* value json.dumps cannot serialise
ToolOutcomes == {"ok", "raise", "unserialisable"}

RequestKinds ==
    { [name |-> "get_bus_data", args |-> "ok"],
      [name |-> "get_bus_data", args |-> "misfit"],
      [name |-> "get_bus_data", args |-> "malformed"],
      [name |-> "run_power_flow", args |-> "ok"],
      [name |-> "scale_all_loads", args |-> "ok"],
      [name |-> "no_such_tool", args |-> "ok"] }

PlainRequest == [name |-> "get_bus_data", args |-> "ok"]

\* the factor a well-formed scale_all_loads request carries (percent)
RequestedFactor == 80

NoResult == [error |-> "", value |-> "", serialisable |-> TRUE, raised |-> FALSE]

-----------------------------------------------------------------------------
(* The simulation object as the loops see it: total load (percent of the    *)
(* original), the solver's flag and result tables (counts of outstanding    *)
(* violations), shunts added, the slack setpoint (percent of nominal) of    *)
(* each ext_grid, which generators are in service, and how often the        *)
(* controller has called pp.runpp on it.                                    *)

NoIssues == [violations |-> 0, lines |-> 0, trafos |-> 0]

LoopNet ==
    [load |-> 100, converged |-> TRUE, res |-> NoIssues, shunts |-> <<>>,
     ext_grid |-> <<100>>, gen |-> <<TRUE>>, runpp_calls |-> 0]

-----------------------------------------------------------------------------
(* Modification tools (tools/modification_tools.py) *)

ScaleAllLoads(n, factor) == [n EXCEPT !.load = (n.load * factor) \div 100]

AddReactiveCompensation(n, bus, q_mvar) ==
    [n EXCEPT !.shunts = Append(@, [bus |-> bus, q_mvar |-> q_mvar])]

AdjustVoltageSetpoint(n, idx, vm_pu) == [n EXCEPT !.ext_grid[idx + 1] = vm_pu]

ToggleElement(n, idx, in_service) == [n EXCEPT !.gen[idx + 1] = in_service]

\* what a tool body does to the simulation object when it returns normally
ToolEffect(name, n) ==
    IF name = "scale_all_loads" THEN ScaleAllLoads(n, RequestedFactor)
    ELSE n

-----------------------------------------------------------------------------
(* _execute_tool: the dispatcher of both classes *)

ExecuteToolNoCatch(a, n, name, args, outcome) ==
    IF name \in ToolMap(a)
    THEN IF name \in ToolsTakingArgs /\ args = "misfit"
         THEN [result |-> [NoResult EXCEPT !.error = "TypeError", !.raised = TRUE],
               net |-> n]
         ELSE IF outcome = "raise"
         THEN [result |-> [NoResult EXCEPT !.error = "tool raised", !.raised = TRUE],
               net |-> n]
         ELSE [result |-> [NoResult EXCEPT !.value = name,
                                           !.serialisable = (outcome = "ok")],
               net |-> ToolEffect(name, n)]
    ELSE [result |-> [NoResult EXCEPT !.error = "Unknown tool", !.value = name],
          net |-> n]

ExecuteTool(a, n, name, args, outcome) ==
    IF name \in ToolMap(a)
    THEN IF name \in ToolsTakingArgs /\ args = "misfit"
         THEN \* the lambda's call raises TypeError, caught
              [result |-> [NoResult EXCEPT !.error = "TypeError"], net |-> n]
         ELSE IF outcome = "raise"
         THEN [result |-> [NoResult EXCEPT !.error = "tool raised"], net |-> n]
         ELSE [result |-> [NoResult EXCEPT !.value = name,
                                           !.serialisable = (outcome = "ok")],
               net |-> ToolEffect(name, n)]
    ELSE [result |-> [NoResult EXCEPT !.error = "Unknown tool", !.value = name],
          net |-> n]

-----------------------------------------------------------------------------
(* The loops *)

\* range(self.MAX_TOOL_CALLS) / range(self.max_iterations * 3)
LoopBound == IF agent = "agentic" THEN MAX_TOOL_CALLS
             ELSE max_iterations * LlmLoopFactor

SystemTurn == [role |-> "system", calls |-> <<>>, id |-> <<>>, content |-> NoResult]
UserTurn == [role |-> "user", calls |-> <<>>, id |-> <<>>, content |-> NoResult]
AssistantTurn(calls) ==
    [role |-> "assistant", calls |-> calls, id |-> <<>>, content |-> NoResult]
\* a tool-result turn that does not say which request it answers
ToolTurnAnonymous(id, result) ==
    [role |-> "tool", calls |-> <<>>, id |-> <<>>, content |-> result]

ToolTurn(id, result) ==
    [role |-> "tool", calls |-> <<>>, id |-> id, content |-> result]

NoResponse == [kind |-> "none", iteration |-> 0, text |-> ""]
ErrorResponse(it, msg) == [kind |-> "error", iteration |-> it, text |-> msg]
FinalResponse(content) == [kind |-> "final", iteration |-> 0, text |-> content]
ExhaustedResponse == [kind |-> "exhausted", iteration |-> 0, text |-> "max iterations"]
MockResponse == [kind |-> "mock", iteration |-> 0, text |-> "FINAL REPORT"]

NoDispatch == [name |-> "", args |-> "", outcome |-> "", before |-> <<>>,
               after |-> <<>>, result |-> NoResult]

\* the history keeping only its latest entry
RecordLatestOnly(history, entry) ==
    IF history = <<>> THEN <<entry>> ELSE [history EXCEPT ![Len(history)] = entry]

\* tool_calls_log.append(...) / fix_history.append(...)
Record(history, entry) == Append(history, entry)

\* a loop over the requested calls that takes the last one first
NextCallLastFirst(calls) == calls[Len(calls)]

\* for tool_call in message.tool_calls: the call the loop takes next
NextCall(calls) == Head(calls)

\* how many of the requested kinds are not the plain request
DeviantCount(kinds) == Cardinality({k \in DOMAIN kinds : kinds[k] # PlainRequest})

\* the tool calls of one message: turn_len requests, ids unique in the run
ToolCalls(kinds) ==
    [k \in 1..Len(kinds) |->
        [id |-> <<engine_calls, k>>, name |-> kinds[k].name, args |-> kinds[k].args]]

Init ==
    /\ agent \in {"agentic", "iterative"}
    /\ llm_client \in BOOLEAN
    /\ (agent = "iterative") => llm_client
    /\ max_iterations \in 1..MaxLlmIterations
    /\ (agent = "agentic") => max_iterations = 1
    /\ turn_len \in {1, MaxToolsPerTurn}
    /\ pc = "start"
    /\ i = 0
    /\ conversation = <<SystemTurn, UserTurn>>
    /\ log = <<>>
    /\ pending = <<>>
    /\ response = NoResponse
    /\ net = [LoopNet EXCEPT !.converged = FALSE]
    /\ original_net = net
    /\ engine_calls = 0
    /\ deviations = 0
    /\ last_dispatch = NoDispatch
    /\ report = <<>>
    /\ findings = <<>>
    /\ category = ""
    /\ rule_order = <<>>
    /\ converged = FALSE

\* if self.llm_client is None: return self._mock_agentic_response(conversation)
EnterLoop ==
    /\ pc = "start"
    /\ IF agent = "agentic" /\ ~llm_client
       THEN /\ pc' = "done"
            /\ response' = MockResponse
       ELSE /\ pc' = "awaiting_model"
            /\ UNCHANGED response
    /\ UNCHANGED <<agent, llm_client, max_iterations, turn_len, i, conversation, log,
                   pending, net, engine_calls, deviations, last_dispatch>>
    /\ UNCHANGED <<prevars, fbvars>>

\* except Exception as e: return the error report (the engine call raised)
TransportErrorRetried ==
    /\ i' = i + 1
    /\ UNCHANGED <<pc, response>>

TransportError ==
    /\ response' = ErrorResponse(i, "transport")
    /\ pc' = "done"
    /\ UNCHANGED i

\* a text-only answer after which the loop asks the engine again
FinalAnswerContinues(content) ==
    /\ response' = FinalResponse(content)
    /\ pc' = "awaiting_model"

\* else: return message.content or ""
FinalAnswer(content) ==
    /\ response' = FinalResponse(content)
    /\ pc' = "done"

\* one chat.completions.create call and the branch on message.tool_calls
EngineCall ==
    /\ pc = "awaiting_model"
    /\ i < LoopBound
    /\ engine_calls' = engine_calls + 1
    /\ \/ \* the call raises
          /\ TransportError
          /\ UNCHANGED <<conversation, pending, deviations>>
       \/ \* no tool calls: return message.content or ""
          /\ \E content \in {"text", ""} : FinalAnswer(content)
          /\ UNCHANGED <<i, conversation, pending, deviations>>
       \/ \* tool calls: conversation.append(message.model_dump())
          \E kinds \in [1..turn_len -> RequestKinds] :
             /\ deviations + DeviantCount(kinds) <= MaxDeviations
             /\ deviations' = deviations + DeviantCount(kinds)
             /\ conversation' = Append(conversation,
                                       AssistantTurn([k \in 1..turn_len |->
                                                        ToolCalls(kinds)[k].id]))
             /\ pending' = ToolCalls(kinds)
             /\ pc' = "executing"
             /\ UNCHANGED <<i, response>>
    /\ UNCHANGED <<agent, llm_client, max_iterations, turn_len, log, net,
                   last_dispatch>>
    /\ UNCHANGED <<prevars, fbvars>>

\* one pass of for tool_call in message.tool_calls
ExecTool ==
    /\ pc = "executing"
    /\ pending # <<>>
    /\ LET tc == NextCall(pending) IN
       IF tc.args = "malformed"
       THEN \* json.loads raises inside the outer try
            /\ response' = ErrorResponse(i, "json decode")
            /\ pc' = "done"
            /\ UNCHANGED <<i, conversation, log, pending, net, deviations,
                           last_dispatch>>
       ELSE \E outcome \in ToolOutcomes :
            LET used == IF outcome = "ok" THEN 0 ELSE 1
                r == ExecuteTool(agent, net, tc.name, tc.args, outcome)
            IN
            /\ deviations + used <= MaxDeviations
            /\ deviations' = deviations + used
            /\ last_dispatch' = [name |-> tc.name, args |-> tc.args,
                                 outcome |-> outcome, before |-> net,
                                 after |-> r.net, result |-> r.result]
            /\ net' = r.net
            /\ IF r.result.raised
               THEN \* an exception out of _execute_tool reaches the outer except
                    /\ response' = ErrorResponse(i, r.result.error)
                    /\ pc' = "done"
                    /\ UNCHANGED <<i, conversation, log, pending>>
               ELSE /\ log' = Record(log, [iteration |-> i, tool |-> tc.name,
                                           args |-> tc.args, result |-> r.result])
                    /\ IF ~r.result.serialisable
                       THEN \* json.dumps(result) raises inside the outer try
                            /\ response' = ErrorResponse(i, "not serialisable")
                            /\ pc' = "done"
                            /\ UNCHANGED <<i, conversation, pending>>
                       ELSE /\ conversation' =
                                  Append(conversation, ToolTurn(tc.id, r.result))
                            /\ pending' = Tail(pending)
                            /\ IF Tail(pending) = <<>>
                               THEN i' = i + 1 /\ pc' = "awaiting_model"
                               ELSE UNCHANGED <<i, pc>>
                            /\ UNCHANGED response
    /\ UNCHANGED <<agent, llm_client, max_iterations, turn_len, engine_calls>>
    /\ UNCHANGED <<prevars, fbvars>>

\* the for loop ran out: return the max-iterations report
Exhausted ==
    /\ pc = "awaiting_model"
    /\ i >= LoopBound
    /\ response' = ExhaustedResponse
    /\ pc' = "done"
    /\ UNCHANGED <<agent, llm_client, max_iterations, turn_len, i, conversation, log,
                   pending, net, engine_calls, deviations, last_dispatch>>
    /\ UNCHANGED <<prevars, fbvars>>

Next == EnterLoop \/ EngineCall \/ ExecTool \/ Exhausted

Spec == Init /\ [][Next]_vars

-----------------------------------------------------------------------------
(* Evidence collection (rule_engine/evidence_collector.py)                  *)
(*                                                                         *)
(* In SpecPre the simulation object carries the tables collect() reads:    *)
(* voltages are in percent of nominal (0.95 pu -> 95), loadings in percent,*)
(* powers in MW / Mvar; None stands for Python's None / NaN.               *)

None == -1

\* Preprocessor.__init__ defaults handed to EvidenceCollector
V_MIN == 95
V_MAX == 105
MAX_LOADING == 100

RECURSIVE SumOf(_, _)
SumOf(f, idx) ==
    IF idx = {} THEN 0
    ELSE LET k == CHOOSE x \in idx : TRUE IN f[k] + SumOf(f, idx \ {k})

SeqMin(q) == CHOOSE x \in {q[k] : k \in DOMAIN q} : \A k \in DOMAIN q : x <= q[k]
SeqMax(q) == CHOOSE x \in {q[k] : k \in DOMAIN q} : \A k \in DOMAIN q : x >= q[k]

\* the rows of a table that satisfy a test, in index order, as output records
RECURSIVE RowsWhere(_, _, _, _)
RowsWhere(table, Test(_), Row(_, _), k) ==
    IF k > Len(table) THEN <<>>
    ELSE IF Test(table[k])
         THEN <<Row(k - 1, table[k])>> \o RowsWhere(table, Test, Row, k + 1)
         ELSE RowsWhere(table, Test, Row, k + 1)

\* in_service_loads.sort_values("p_mw", ascending=False).head(15)
RECURSIVE SortedByPDesc(_)
SortedByPDesc(rows) ==
    IF rows = <<>> THEN <<>>
    ELSE LET top == CHOOSE k \in DOMAIN rows :
                       \A j \in DOMAIN rows :
                           \/ rows[k].p_mw > rows[j].p_mw
                           \/ (rows[k].p_mw = rows[j].p_mw /\ k <= j)
         IN <<rows[top]>> \o
            SortedByPDesc([j \in 1..(Len(rows) - 1) |->
                              IF j < top THEN rows[j] ELSE rows[j + 1]])

Head15(rows) == IF Len(rows) <= 15 THEN rows ELSE SubSeq(rows, 1, 15)

\* EvidenceReport(): the dataclass defaults
EmptyReport ==
    [converged |-> FALSE,
     bus_count |-> 0, voltage_min_pu |-> None, voltage_max_pu |-> None,
     voltage_mean_pu |-> None, undervoltage_buses |-> <<>>, overvoltage_buses |-> <<>>,
     line_count |-> 0, max_line_loading_pct |-> None, overloaded_lines |-> <<>>,
     trafo_count |-> 0, max_trafo_loading_pct |-> None, overloaded_trafos |-> <<>>,
     gen_count |-> 0, total_gen_p_mw |-> 0, total_gen_q_mvar |-> 0,
     gens_at_q_limit |-> <<>>,
     total_load_p_mw |-> 0, total_load_q_mvar |-> 0,
     input_load_count |-> 0, input_load_details |-> <<>>,
     input_gen_count |-> 0, input_gen_details |-> <<>>,
     input_ext_grid_count |-> 0, input_gen_capacity_mw |-> 0,
     active_power_mismatch_mw |-> 0, reactive_power_mismatch_mvar |-> 0,
     diagnostic_results |-> {}]

InService(table) ==
    RowsWhere(table, LAMBDA r : r.in_service,
              LAMBDA idx, r : [index |-> idx, row |-> r], 1)

CollectInputData(n, rpt) ==
    LET loads == InService(n.load)
        gens == IF Len(n.gen) > 0 THEN InService(n.gen) ELSE <<>>
        flat == [k \in DOMAIN loads |->
                    [index |-> loads[k].index, bus |-> loads[k].row.bus,
                     p_mw |-> loads[k].row.p_mw, q_mvar |-> loads[k].row.q_mvar]]
        MaxP(g) == IF g.max_p_mw # None THEN g.max_p_mw ELSE g.p_mw
    IN [rpt EXCEPT
          !.input_load_count = Len(loads),
          !.input_load_details = Head15(SortedByPDesc(flat)),
          !.input_gen_count = Len(gens),
          !.input_ext_grid_count = Len(InService(n.ext_grid)),
          !.input_gen_details =
              [k \in DOMAIN gens |->
                  [index |-> gens[k].index, bus |-> gens[k].row.bus,
                   p_mw |-> gens[k].row.p_mw, max_p_mw |-> MaxP(gens[k].row),
                   in_service |-> gens[k].row.in_service]],
          !.input_gen_capacity_mw =
              SumOf([k \in DOMAIN gens |-> MaxP(gens[k].row)], DOMAIN gens)]

CollectBusResults(n, rpt) ==
    LET res == n.res_bus IN
    [rpt EXCEPT
        !.voltage_min_pu = SeqMin(res),
        !.voltage_max_pu = SeqMax(res),
        !.voltage_mean_pu = SumOf(res, DOMAIN res) \div Len(res),
        !.undervoltage_buses =
            RowsWhere(res, LAMBDA vm : vm < V_MIN,
                      LAMBDA idx, vm : [index |-> idx, vm_pu |-> vm], 1),
        !.overvoltage_buses =
            RowsWhere(res, LAMBDA vm : vm > V_MAX,
                      LAMBDA idx, vm : [index |-> idx, vm_pu |-> vm], 1)]

CollectLineResults(n, rpt) ==
    LET res == n.res_line IN
    IF Len(res) > 0
    THEN [rpt EXCEPT
            !.max_line_loading_pct = SeqMax(res),
            !.overloaded_lines =
                RowsWhere(res, LAMBDA pct : pct > MAX_LOADING,
                          LAMBDA idx, pct : [index |-> idx, loading_pct |-> pct], 1)]
    ELSE rpt

CollectTrafoResults(n, rpt) ==
    LET res == n.res_trafo IN
    IF n.trafo_count = 0 THEN rpt
    ELSE IF Len(res) > 0
    THEN [rpt EXCEPT
            !.max_trafo_loading_pct = SeqMax(res),
            !.overloaded_trafos =
                RowsWhere(res, LAMBDA pct : pct > MAX_LOADING,
                          LAMBDA idx, pct : [index |-> idx, loading_pct |-> pct], 1)]
    ELSE rpt

\* q_actual >= q_max * 0.95, in integers
AtQMax(g, q) == g.max_q_mvar # None /\ 100 * q >= 95 * g.max_q_mvar
AtQMin(g, q) == g.min_q_mvar # None /\ 100 * q <= 95 * g.min_q_mvar

CollectGenResults(n, rpt) ==
    LET ext == n.res_ext_grid
        gen == n.res_gen
        ext_p == SumOf([k \in DOMAIN ext |-> ext[k].p_mw], DOMAIN ext)
        ext_q == SumOf([k \in DOMAIN ext |-> ext[k].q_mvar], DOMAIN ext)
        gen_p == SumOf([k \in DOMAIN gen |-> gen[k].p_mw], DOMAIN gen)
        gen_q == SumOf([k \in DOMAIN gen |-> gen[k].q_mvar], DOMAIN gen)
        both == [k \in 1..Len(n.gen) |->
                    [g |-> n.gen[k],
                     q |-> IF k \in DOMAIN gen THEN gen[k].q_mvar ELSE None,
                     has |-> k \in DOMAIN gen]]
    IN [rpt EXCEPT
          !.total_gen_p_mw = ext_p + gen_p,
          !.total_gen_q_mvar = ext_q + gen_q,
          !.gens_at_q_limit =
              IF Len(gen) > 0
              THEN RowsWhere(both,
                      LAMBDA b : b.has /\ (AtQMax(b.g, b.q) \/ AtQMin(b.g, b.q)),
                      LAMBDA idx, b :
                          [index |-> idx, q_mvar |-> b.q,
                           limit |-> IF AtQMax(b.g, b.q) THEN "max" ELSE "min"], 1)
              ELSE <<>>]

ComputePowerBalance(rpt) ==
    [rpt EXCEPT
        !.active_power_mismatch_mw = rpt.total_gen_p_mw - rpt.total_load_p_mw,
        !.reactive_power_mismatch_mvar = rpt.total_gen_q_mvar - rpt.total_load_q_mvar]

\* Diagnostic().diagnose_network(...): a dict of check name -> findings (here the
\* set of check names that reported), something that is no dict, or an exception
CollectDiagnostics(n, rpt) ==
    IF n.diag.kind = "raises" THEN [rpt EXCEPT !.diagnostic_results = {"error"}]
    ELSE IF n.diag.kind = "dict" THEN [rpt EXCEPT !.diagnostic_results = n.diag.checks]
    ELSE rpt

\* the guard of the result section: if report.converged and len(net.res_bus) > 0
ResultsAvailableIgnoringFlag(n, rpt) == Len(n.res_bus) > 0

ResultsAvailable(n, rpt) == rpt.converged /\ Len(n.res_bus) > 0

Collect(n) ==
    LET loads == InService(n.load)
        r0 == [EmptyReport EXCEPT
                 !.converged = n.converged,
                 !.bus_count = n.bus_count,
                 !.line_count = n.line_count,
                 !.trafo_count = n.trafo_count,
                 !.gen_count = Len(n.gen) + Len(n.ext_grid),
                 !.total_load_p_mw =
                     SumOf([k \in DOMAIN loads |-> loads[k].row.p_mw], DOMAIN loads),
                 !.total_load_q_mvar =
                     SumOf([k \in DOMAIN loads |-> loads[k].row.q_mvar], DOMAIN loads)]
        r1 == CollectInputData(n, r0)
        r2 == IF ResultsAvailable(n, r1)
              THEN ComputePowerBalance(
                     CollectGenResults(n,
                       CollectTrafoResults(n,
                         CollectLineResults(n,
                           CollectBusResults(n, r1)))))
              ELSE r1
    IN CollectDiagnostics(n, r2)

-----------------------------------------------------------------------------
(* Rule classification engine (rule_engine/rules.py) *)

RuleResult(name, triggered, severity, evidence) ==
    [rule_name |-> name, triggered |-> triggered, severity |-> severity,
     evidence |-> evidence]

\* the rule reporting a failed solve as a warning
RuleNonconvergenceWarning(rpt) ==
    RuleResult("nonconvergence", ~rpt.converged, "warning",
               [converged |-> rpt.converged, diagnostics |-> rpt.diagnostic_results])

RuleNonconvergence(rpt) ==
    RuleResult("nonconvergence", ~rpt.converged, "critical",
               [converged |-> rpt.converged, diagnostics |-> rpt.diagnostic_results])

\* the rule escalating at three buses already
RuleUndervoltageCriticalAtThree(rpt) ==
    RuleResult("undervoltage", Len(rpt.undervoltage_buses) > 0,
               IF Len(rpt.undervoltage_buses) < 3 THEN "warning" ELSE "critical",
               [buses |-> rpt.undervoltage_buses])

RuleUndervoltage(rpt) ==
    RuleResult("undervoltage", Len(rpt.undervoltage_buses) > 0,
               IF Len(rpt.undervoltage_buses) <= 3 THEN "warning" ELSE "critical",
               [buses |-> rpt.undervoltage_buses])

RuleOvervoltage(rpt) ==
    RuleResult("overvoltage", Len(rpt.overvoltage_buses) > 0,
               IF Len(rpt.overvoltage_buses) <= 3 THEN "warning" ELSE "critical",
               [buses |-> rpt.overvoltage_buses])

RuleLineOverload(rpt) ==
    LET triggered == Len(rpt.overloaded_lines) > 0 IN
    RuleResult("line_overload", triggered,
               IF triggered THEN "critical" ELSE "info",
               [lines |-> rpt.overloaded_lines])

RuleTrafoOverload(rpt) ==
    LET triggered == Len(rpt.overloaded_trafos) > 0 IN
    RuleResult("trafo_overload", triggered,
               IF triggered THEN "critical" ELSE "info",
               [trafos |-> rpt.overloaded_trafos])

\* the rule triggering from a deficit of 10% on
RuleGenerationDeficitAtLeast(rpt) ==
    LET deficit == rpt.total_load_p_mw - rpt.total_gen_p_mw
        triggered == 10 * deficit >= rpt.total_load_p_mw
    IN RuleResult("generation_deficit", triggered,
                  IF triggered THEN "critical" ELSE "info",
                  [deficit_mw |-> deficit])

\* deficit > total_load_p_mw * 0.1, in integers
RuleGenerationDeficit(rpt) ==
    LET deficit == rpt.total_load_p_mw - rpt.total_gen_p_mw
        triggered == 10 * deficit > rpt.total_load_p_mw
    IN RuleResult("generation_deficit", triggered,
                  IF triggered THEN "critical" ELSE "info",
                  [deficit_mw |-> deficit])

\* deficit > total_load_q_mvar * 0.2, in integers
RuleReactiveDeficit(rpt) ==
    LET deficit == rpt.total_load_q_mvar - rpt.total_gen_q_mvar
        triggered == 10 * deficit > 2 * rpt.total_load_q_mvar
    IN RuleResult("reactive_deficit", triggered,
                  IF triggered THEN "warning" ELSE "info",
                  [deficit_mvar |-> deficit])

\* bool(rpt.diagnostic_results.get("DisconnectedElements", {}))
RuleDisconnectedElements(rpt) ==
    LET triggered == "DisconnectedElements" \in rpt.diagnostic_results IN
    RuleResult("disconnected_elements", triggered,
               IF triggered THEN "critical" ELSE "info",
               [disconnected |-> triggered])

RuleGenAtQLimit(rpt) ==
    RuleResult("gen_at_q_limit", Len(rpt.gens_at_q_limit) > 0, "warning",
               [generators |-> rpt.gens_at_q_limit])

\* the rule with a threshold of 0.05 pu
RuleExtremeVoltageSpreadNarrow(rpt) ==
    IF rpt.voltage_min_pu = None \/ rpt.voltage_max_pu = None
    THEN RuleResult("extreme_voltage_spread", FALSE, "info", [empty |-> TRUE])
    ELSE LET spread == rpt.voltage_max_pu - rpt.voltage_min_pu
             triggered == spread > 5
         IN RuleResult("extreme_voltage_spread", triggered,
                       IF triggered THEN "warning" ELSE "info",
                       [spread |-> spread])

\* spread > 0.15 pu
RuleExtremeVoltageSpread(rpt) ==
    IF rpt.voltage_min_pu = None \/ rpt.voltage_max_pu = None
    THEN RuleResult("extreme_voltage_spread", FALSE, "info", [empty |-> TRUE])
    ELSE LET spread == rpt.voltage_max_pu - rpt.voltage_min_pu
             triggered == spread > 15
         IN RuleResult("extreme_voltage_spread", triggered,
                       IF triggered THEN "warning" ELSE "info",
                       [spread |-> spread])

\* all_rules of RuleEngine.evaluate, in declaration order
AllRules ==
    <<"nonconvergence", "undervoltage", "overvoltage", "line_overload",
      "trafo_overload", "generation_deficit", "reactive_deficit",
      "disconnected_elements", "gen_at_q_limit", "extreme_voltage_spread">>

\* rule_fn(report)
ApplyRule(rule, rpt) ==
    CASE rule = "nonconvergence" -> RuleNonconvergence(rpt)
      [] rule = "undervoltage" -> RuleUndervoltage(rpt)
      [] rule = "overvoltage" -> RuleOvervoltage(rpt)
      [] rule = "line_overload" -> RuleLineOverload(rpt)
      [] rule = "trafo_overload" -> RuleTrafoOverload(rpt)
      [] rule = "generation_deficit" -> RuleGenerationDeficit(rpt)
      [] rule = "reactive_deficit" -> RuleReactiveDeficit(rpt)
      [] rule = "disconnected_elements" -> RuleDisconnectedElements(rpt)
      [] rule = "gen_at_q_limit" -> RuleGenAtQLimit(rpt)
      [] rule = "extreme_voltage_spread" -> RuleExtremeVoltageSpread(rpt)

\* the loop of evaluate over a rule list: results of the rules that triggered
RECURSIVE EvaluateStoppingAtCritical(_, _)
EvaluateStoppingAtCritical(rpt, rule_list) ==
    IF rule_list = <<>> THEN <<>>
    ELSE LET result == ApplyRule(Head(rule_list), rpt) IN
         IF result.triggered
         THEN IF result.severity = "critical" THEN <<result>>
              ELSE <<result>> \o EvaluateStoppingAtCritical(rpt, Tail(rule_list))
         ELSE EvaluateStoppingAtCritical(rpt, Tail(rule_list))

RECURSIVE EvaluateRules(_, _)
EvaluateRules(rpt, rule_list) ==
    IF rule_list = <<>> THEN <<>>
    ELSE LET result == ApplyRule(Head(rule_list), rpt) IN
         IF result.triggered
         THEN <<result>> \o EvaluateRules(rpt, Tail(rule_list))
         ELSE EvaluateRules(rpt, Tail(rule_list))

Evaluate(rpt) == EvaluateRules(rpt, AllRules)

AnyResult(results, Test(_)) == \E k \in DOMAIN results : Test(results[k])

ClassifyFailureVoltageFirst(results) ==
    IF results = <<>> THEN "no_failure_detected"
    ELSE IF AnyResult(results, LAMBDA r : r.severity = "critical"
                                          /\ r.rule_name = "nonconvergence")
    THEN "nonconvergence"
    ELSE IF AnyResult(results, LAMBDA r : r.rule_name \in {"undervoltage", "overvoltage"})
    THEN "voltage_violation"
    ELSE IF AnyResult(results, LAMBDA r : r.rule_name \in {"line_overload", "trafo_overload"})
    THEN "thermal_overload"
    ELSE "other"

ClassifyFailure(results) ==
    IF results = <<>> THEN "no_failure_detected"
    ELSE IF AnyResult(results, LAMBDA r : r.severity = "critical"
                                          /\ r.rule_name = "nonconvergence")
    THEN "nonconvergence"
    ELSE IF AnyResult(results, LAMBDA r : r.rule_name \in {"line_overload", "trafo_overload"})
    THEN "thermal_overload"
    ELSE IF AnyResult(results, LAMBDA r : r.rule_name \in {"undervoltage", "overvoltage"})
    THEN "voltage_violation"
    ELSE "other"

-----------------------------------------------------------------------------
(* Preprocessor.process (rule_engine/preprocessor.py), specification SpecPre *)

MaxBuses == 4

VmValues == {90, 100, 110}

\* res_bus tables: none, or one value per bus
ResBusTables ==
    {<<>>} \cup {t \in [1..MaxBuses -> VmValues] :
                    \A k \in 1..(MaxBuses - 1) : t[k] <= t[k + 1]}

ResLineTables == {<<>>, <<50>>, <<120>>}

Trafos == {[count |-> 0, res |-> <<>>], [count |-> 1, res |-> <<130>>]}

LoadTables ==
    {<<>>,
     <<[bus |-> 1, p_mw |-> 40, q_mvar |-> 10, in_service |-> FALSE],
       [bus |-> 2, p_mw |-> 30, q_mvar |-> 10, in_service |-> TRUE],
       [bus |-> 3, p_mw |-> 70, q_mvar |-> 20, in_service |-> TRUE]>>}

\* generators, external grids and what the solver last wrote for them
Supplies ==
    {[gen |-> <<>>, ext_grid |-> <<[in_service |-> TRUE]>>,
      res_gen |-> <<>>, res_ext_grid |-> <<[p_mw |-> 100, q_mvar |-> 30]>>],
     [gen |-> <<>>, ext_grid |-> <<[in_service |-> TRUE]>>,
      res_gen |-> <<>>, res_ext_grid |-> <<[p_mw |-> 85, q_mvar |-> 20]>>],
     [gen |-> <<[bus |-> 1, p_mw |-> 40, max_p_mw |-> 60, in_service |-> TRUE,
                 max_q_mvar |-> 50, min_q_mvar |-> None]>>,
      ext_grid |-> <<[in_service |-> TRUE]>>,
      res_gen |-> <<[p_mw |-> 40, q_mvar |-> 48]>>,
      res_ext_grid |-> <<[p_mw |-> 50, q_mvar |-> 0]>>],
     [gen |-> <<[bus |-> 1, p_mw |-> 40, max_p_mw |-> None, in_service |-> FALSE,
                 max_q_mvar |-> None, min_q_mvar |-> None]>>,
      ext_grid |-> <<[in_service |-> FALSE]>>,
      res_gen |-> <<>>, res_ext_grid |-> <<>>]}

DiagnosticOutcomes ==
    {[kind |-> "dict", checks |-> {}],
     [kind |-> "dict", checks |-> {"DisconnectedElements", "test_continuous_bus_indices"}],
     [kind |-> "raises", checks |-> {}]}

Networks ==
    {[converged |-> c, bus_count |-> MaxBuses, res_bus |-> rb,
      line_count |-> 1, res_line |-> rl,
      trafo_count |-> tr.count, res_trafo |-> tr.res,
      load |-> ld, gen |-> su.gen, ext_grid |-> su.ext_grid,
      res_gen |-> su.res_gen, res_ext_grid |-> su.res_ext_grid, diag |-> dg] :
        c \in BOOLEAN, rb \in ResBusTables, rl \in ResLineTables, tr \in Trafos,
        ld \in LoadTables, su \in Supplies, dg \in DiagnosticOutcomes}

Reversed(q) == [k \in DOMAIN q |-> q[Len(q) + 1 - k]]
Rotated(q) == Tail(q) \o <<Head(q)>>

\* declaration orders of the rule list the order-independence is checked over
RuleOrders == {AllRules, Reversed(AllRules), Rotated(AllRules)}

InitPre ==
    /\ net \in Networks
    /\ pc = "pre"
    /\ report = EmptyReport
    /\ findings = <<>>
    /\ category = ""
    /\ rule_order \in RuleOrders
    /\ agent = "" /\ llm_client = FALSE /\ max_iterations = 1 /\ turn_len = 1
    /\ i = 0 /\ conversation = <<>> /\ log = <<>> /\ pending = <<>>
    /\ response = NoResponse /\ engine_calls = 0 /\ deviations = 0
    /\ last_dispatch = NoDispatch /\ converged = FALSE
    /\ original_net = net

\* process(net): collect, evaluate, classify_failure
Process ==
    /\ pc = "pre"
    /\ report' = Collect(net)
    /\ findings' = EvaluateRules(report', rule_order)
    /\ category' = ClassifyFailure(findings')
    /\ pc' = "preprocessed"
    /\ UNCHANGED <<net, rule_order>>
    /\ UNCHANGED loopvars

NextPre == Process

SpecPre == InitPre /\ [][NextPre]_vars

-----------------------------------------------------------------------------
(* The deterministic fallback (agents/iterative_debugger.py), SpecFallback *)

MaxIterations == 6
MaxIssues == 1

\* factors and magnitudes of the heuristic fixes (percent, Mvar, percent)
FirstScaleFactor == 80
SecondScaleFactor == 70
CompensationMvar == 10
SlackSetpoint == 102

NoCall == [name |-> "", args |-> <<>>]

\* what a modification tool returns: a dict naming the action and echoing the
\* arguments, to which _apply_automated_fix adds iteration and rationale
\* an entry numbered one ahead of the loop counter
FixEntryNextIteration(iteration, name, args, rationale) ==
    [iteration |-> iteration + 1, action |-> name, args |-> args, rationale |-> rationale]

FixEntry(iteration, name, args, rationale) ==
    [iteration |-> iteration, action |-> name, args |-> args, rationale |-> rationale]

\* a last strategy that reduces loads again
NoFixEntryReducesLoads(iteration) ==
    [iteration |-> iteration, action |-> "scale_all_loads",
     args |-> <<SecondScaleFactor>>, rationale |-> "Further reduce loads to 70%"]

NoFixEntry(iteration) ==
    [iteration |-> iteration, action |-> "no_fix_available",
     rationale |-> "Exhausted automated fix strategies"]

VerificationEntry(iteration) ==
    [iteration |-> iteration, action |-> "verification",
     result |-> "All constraints satisfied", converged |-> TRUE]

\* next((r for r in rules if r["rule_name"] == "undervoltage"), None)
UndervoltageRule(rules) ==
    LET hits == {k \in DOMAIN rules : rules[k].rule_name = "undervoltage"} IN
    IF hits = {} THEN <<>>
    ELSE <<rules[CHOOSE k \in hits : \A j \in hits : k <= j]>>

\* net.gen[~net.gen["in_service"]].index
DisabledGens(n) == {k \in DOMAIN n.gen : ~n.gen[k]}

Fix(entry, n, name, args) == [entry |-> entry, net |-> n, call |-> [name |-> name, args |-> args]]

\* the bus of the compensation fix, as a variant that takes the last listed bus
ApplyAutomatedFixLastBus(n, cat, rules, iteration) ==
    LET uv == UndervoltageRule(rules)
        buses == IF uv = <<>> THEN <<>> ELSE uv[1].evidence.buses
    IN
    IF cat \in {"nonconvergence", "thermal_overload"} /\ iteration = 0
    THEN Fix(FixEntry(iteration, "scale_all_loads", <<FirstScaleFactor>>,
                      <<"Reduce all loads by 20% to alleviate stress">>),
             ScaleAllLoads(n, FirstScaleFactor), "scale_all_loads", <<FirstScaleFactor>>)
    ELSE IF cat = "voltage_violation" /\ iteration = 0 /\ uv # <<>> /\ buses # <<>>
    THEN LET bus_idx == buses[Len(buses)].index IN
         Fix(FixEntry(iteration, "add_reactive_compensation",
                      <<bus_idx, CompensationMvar>>,
                      <<"Add 10 Mvar capacitor at under-voltage bus", bus_idx>>),
             AddReactiveCompensation(n, bus_idx, CompensationMvar),
             "add_reactive_compensation", <<bus_idx, CompensationMvar>>)
    ELSE IF iteration = 1
    THEN Fix(FixEntry(iteration, "scale_all_loads", <<SecondScaleFactor>>,
                      <<"Further reduce loads to 70%">>),
             ScaleAllLoads(n, SecondScaleFactor), "scale_all_loads", <<SecondScaleFactor>>)
    ELSE [entry |-> NoFixEntry(iteration), net |-> n, call |-> NoCall]

\* a variant whose second load reduction repeats the first factor
ApplyAutomatedFixSameFactor(n, cat, rules, iteration) ==
    IF cat \in {"nonconvergence", "thermal_overload"} /\ iteration = 0
    THEN Fix(FixEntry(iteration, "scale_all_loads", <<FirstScaleFactor>>,
                      <<"Reduce all loads by 20% to alleviate stress">>),
             ScaleAllLoads(n, FirstScaleFactor), "scale_all_loads", <<FirstScaleFactor>>)
    ELSE IF iteration = 1
    THEN Fix(FixEntry(iteration, "scale_all_loads", <<FirstScaleFactor>>,
                      <<"Further reduce loads to 70%">>),
             ScaleAllLoads(n, FirstScaleFactor), "scale_all_loads", <<FirstScaleFactor>>)
    ELSE [entry |-> NoFixEntry(iteration), net |-> n, call |-> NoCall]

\* _apply_automated_fix: the entry to append, the modified simulation object
\* and the modification tool called (NoCall when no strategy matches)
ApplyAutomatedFix(n, cat, rules, iteration) ==
    LET uv == UndervoltageRule(rules)
        buses == IF uv = <<>> THEN <<>> ELSE uv[1].evidence.buses
        disabled == DisabledGens(n)
    IN
    IF cat \in {"nonconvergence", "thermal_overload"} /\ iteration = 0
    THEN Fix(FixEntry(iteration, "scale_all_loads", <<FirstScaleFactor>>,
                      <<"Reduce all loads by 20% to alleviate stress">>),
             ScaleAllLoads(n, FirstScaleFactor), "scale_all_loads", <<FirstScaleFactor>>)
    ELSE IF cat = "voltage_violation" /\ iteration = 0 /\ uv # <<>> /\ buses # <<>>
    THEN LET bus_idx == buses[1].index IN
         Fix(FixEntry(iteration, "add_reactive_compensation",
                      <<bus_idx, CompensationMvar>>,
                      <<"Add 10 Mvar capacitor at under-voltage bus", bus_idx>>),
             AddReactiveCompensation(n, bus_idx, CompensationMvar),
             "add_reactive_compensation", <<bus_idx, CompensationMvar>>)
    ELSE IF iteration = 1
    THEN Fix(FixEntry(iteration, "scale_all_loads", <<SecondScaleFactor>>,
                      <<"Further reduce loads to 70%">>),
             ScaleAllLoads(n, SecondScaleFactor), "scale_all_loads", <<SecondScaleFactor>>)
    ELSE IF iteration = 2 /\ Len(n.ext_grid) > 0
    THEN Fix(FixEntry(iteration, "adjust_voltage_setpoint", <<"ext_grid", 0, SlackSetpoint>>,
                      <<"Raise slack bus voltage to 1.02 pu">>),
             AdjustVoltageSetpoint(n, 0, SlackSetpoint),
             "adjust_voltage_setpoint", <<"ext_grid", 0, SlackSetpoint>>)
    ELSE IF iteration = 3 /\ disabled # {}
    THEN LET gen_idx == (CHOOSE k \in disabled : \A j \in disabled : k <= j) - 1 IN
         Fix(FixEntry(iteration, "toggle_element", <<"gen", gen_idx, TRUE>>,
                      <<"Re-enable generator", gen_idx>>),
             ToggleElement(n, gen_idx, TRUE),
             "toggle_element", <<"gen", gen_idx, TRUE>>)
    ELSE [entry |-> NoFixEntry(iteration), net |-> n, call |-> NoCall]

\* violations.total_violations + len(overloaded_lines) + len(overloaded_trafos)
TotalIssues(res) == res.violations + res.lines + res.trafos

\* the result tables a converged solve may leave
ResultTables ==
    [violations : 0..MaxIssues, lines : 0..MaxIssues, trafos : 0..MaxIssues]

\* reports the preprocessing of a fallback run may have produced
FallbackReports ==
    LET bus(idx) == [index |-> idx, vm_pu |-> 90]
        ok == [EmptyReport EXCEPT !.converged = TRUE, !.voltage_min_pu = 100,
                                  !.voltage_max_pu = 100, !.total_load_p_mw = 100,
                                  !.total_gen_p_mw = 100]
    IN {ok,
        [EmptyReport EXCEPT !.total_load_p_mw = 100, !.total_gen_p_mw = 100],
        [EmptyReport EXCEPT !.total_load_p_mw = 100],
        [ok EXCEPT !.voltage_min_pu = 90, !.undervoltage_buses = <<bus(4)>>],
        [ok EXCEPT !.voltage_min_pu = 90, !.undervoltage_buses = <<bus(2), bus(4)>>],
        [ok EXCEPT !.voltage_max_pu = 110,
                   !.overvoltage_buses = <<[index |-> 1, vm_pu |-> 110]>>],
        [ok EXCEPT !.voltage_min_pu = 90, !.undervoltage_buses = <<bus(4)>>,
                   !.max_line_loading_pct = 120,
                   !.overloaded_lines = <<[index |-> 0, loading_pct |-> 120]>>],
        [ok EXCEPT !.total_gen_p_mw = 50]}

FallbackNets ==
    {[LoopNet EXCEPT !.converged = c, !.ext_grid = eg, !.gen = g] :
        c \in BOOLEAN, eg \in {<<>>, <<100>>}, g \in {<<TRUE>>, <<TRUE, FALSE>>}}

InitFallback ==
    /\ agent = "iterative"
    /\ llm_client = FALSE
    /\ max_iterations \in 1..MaxIterations
    /\ report \in FallbackReports
    /\ findings = Evaluate(report)
    /\ category = ClassifyFailure(findings)
    /\ rule_order = AllRules
    /\ net \in FallbackNets
    /\ report.converged = net.converged
    /\ original_net = net
    /\ pc = "fb_solve"
    /\ i = 0
    /\ log = <<>>
    /\ converged = FALSE
    /\ response = NoResponse
    /\ last_dispatch = NoDispatch
    /\ turn_len = 1 /\ conversation = <<>> /\ pending = <<>>
    /\ engine_calls = 0 /\ deviations = 0

\* the break after the verification entry
LeaveLoopNoBreak == pc' = "fb_fix"

LeaveLoop == pc' = "fb_report"

\* a failed solve, as a variant that ends the run
AfterFailedSolveEnds == pc' = "fb_report"

\* except Exception: converged = False; the loop body goes on to the fix
AfterFailedSolve == pc' = "fb_fix"

\* the exhaustion test, as a variant that never stops
NeverStops(entry) == FALSE

\* if fix_result.get("action") == "no_fix_available": break
StopsOnExhaustion(entry) == entry.action = "no_fix_available"

\* the head of an iteration: pp.runpp(net), then the check for remaining
\* violations when the solver converged
FbSolve ==
    /\ pc = "fb_solve"
    /\ i < max_iterations
    /\ \/ \* runpp returns, converged, with fresh result tables
          \E res \in ResultTables :
             /\ net' = [net EXCEPT !.converged = TRUE, !.res = res,
                                   !.runpp_calls = @ + 1]
             /\ converged' = TRUE
             /\ \/ \* check_voltage_violations or check_overloads raises
                   /\ pc' = "raised"
                   /\ UNCHANGED log
                \/ IF TotalIssues(res) = 0
                   THEN /\ log' = Append(log, VerificationEntry(i))
                        /\ LeaveLoop
                   ELSE /\ pc' = "fb_fix"
                        /\ UNCHANGED log
       \/ \* runpp does not converge (it returns or raises with the flag cleared)
          /\ net' = [net EXCEPT !.converged = FALSE, !.runpp_calls = @ + 1]
          /\ converged' = FALSE
          /\ AfterFailedSolve
          /\ UNCHANGED log
       \/ \* runpp raises before it touches the simulation object
          /\ net' = [net EXCEPT !.runpp_calls = @ + 1]
          /\ converged' = FALSE
          /\ AfterFailedSolve
          /\ UNCHANGED log
    /\ UNCHANGED <<agent, max_iterations, i, response, last_dispatch, original_net>>
    /\ UNCHANGED <<enginevars, prevars>>

\* fix_result = self._apply_automated_fix(...); fix_history.append(fix_result)
FbFix ==
    /\ pc = "fb_fix"
    /\ LET f == ApplyAutomatedFix(net, category, findings, i) IN
       \/ \* the modification tool raises: the exception leaves diagnose()
          /\ f.call # NoCall
          /\ last_dispatch' = [NoDispatch EXCEPT !.name = f.call.name,
                                                 !.args = f.call.args,
                                                 !.outcome = "raise",
                                                 !.before = net, !.after = net]
          /\ pc' = "raised"
          /\ UNCHANGED <<net, log, i>>
       \/ /\ log' = Record(log, f.entry)
          /\ net' = f.net
          /\ last_dispatch' =
                IF f.call = NoCall THEN last_dispatch
                ELSE [NoDispatch EXCEPT !.name = f.call.name, !.args = f.call.args,
                                        !.outcome = "ok",
                                        !.before = net, !.after = f.net]
          /\ IF StopsOnExhaustion(f.entry)
             THEN pc' = "fb_report" /\ UNCHANGED i
             ELSE /\ i' = i + 1
                  /\ pc' = IF i + 1 < max_iterations THEN "fb_solve" ELSE "fb_report"
    /\ UNCHANGED <<agent, max_iterations, response, converged, original_net>>
    /\ UNCHANGED <<enginevars, prevars>>

\* final_converged = getattr(net, "converged", False); the report is returned
FbReport ==
    /\ pc = "fb_report"
    /\ response' = [kind |-> "automated", iteration |-> Len(log),
                    text |-> IF net.converged THEN "CONVERGED" ELSE "NOT CONVERGED"]
    /\ pc' = "done"
    /\ UNCHANGED <<agent, max_iterations, i, log, net, last_dispatch, converged,
                   original_net>>
    /\ UNCHANGED <<enginevars, prevars>>

NextFallback == FbSolve \/ FbFix \/ FbReport

SpecFallback == InitFallback /\ [][NextFallback]_vars

-----------------------------------------------------------------------------
(* IterativeDebuggerAgent.diagnose with either fix strategy: the            *)
(* reasoning-engine-driven loop or the deterministic fallback, chosen by     *)
(* llm_client.                                                              *)

InitDiagnose == (Init /\ agent = "iterative") \/ InitFallback

NextDiagnose == Next \/ NextFallback

SpecDiagnose == InitDiagnose /\ [][NextDiagnose]_vars

-----------------------------------------------------------------------------
(* Properties of the reasoning-engine loops (checked under Spec) *)

\* the parts of the simulation object that modification tools change
Modifiable(n) == [load |-> n.load, shunts |-> n.shunts,
                  ext_grid |-> n.ext_grid, gen |-> n.gen]

\* the number of assistant turns in the transcript: engine calls answered with
\* at least one tool request
ToolTurnsAnswered ==
    Cardinality({k \in DOMAIN conversation : conversation[k].role = "assistant"})

\* every engine call made so far was answered with a tool request
EngineAlwaysRequestedTools == ToolTurnsAnswered = engine_calls

\* C1: with a reasoning engine that requests at least one tool on every call,
\* the analysis loop ends after at most MAX_TOOL_CALLS engine calls with the
\* budget-exhausted report.
C1_AlwaysToolsEndsExhausted ==
    (agent = "agentic" /\ llm_client /\ pc = "done" /\ EngineAlwaysRequestedTools)
        => (response = ExhaustedResponse /\ engine_calls <= MAX_TOOL_CALLS)

\* C8: a tool failure never terminates either loop: the run never ends with an
\* error report unless the reasoning-engine call itself failed.
C8_ToolFailureNeverEndsRun ==
    (response.kind = "error") => (response.text = "transport")

\* C9: _execute_tool always returns: no exception of the dispatcher reaches the
\* loop; an unknown name yields the Unknown-tool error and leaves the
\* simulation object alone; a known tool that raises yields an error payload.
C9_DispatcherContainsErrors ==
    /\ ~last_dispatch.result.raised
    /\ (response.kind = "error")
          => (response.text \in {"transport", "json decode", "not serialisable"})
    /\ (last_dispatch.name # "" /\ last_dispatch.name \notin ToolMap(agent))
          => /\ last_dispatch.result.error = "Unknown tool"
             /\ last_dispatch.result.value = last_dispatch.name
             /\ last_dispatch.after = last_dispatch.before
    /\ (last_dispatch.name \in ToolMap(agent) /\ last_dispatch.outcome = "raise")
          => last_dispatch.result.error \in {"tool raised", "TypeError"}
    /\ (last_dispatch.name \in ToolMap(agent) /\ last_dispatch.name \in ToolsTakingArgs
          /\ last_dispatch.args = "misfit")
          => last_dispatch.result.error = "TypeError"
    /\ \A k \in DOMAIN log :
          (log[k].tool \notin ToolMap(agent)) => (log[k].result.error = "Unknown tool")

\* an unknown tool was dispatched, answered with the error payload, and the
\* loop went on to the next engine call
C9_Witness ==
    /\ last_dispatch.name = "no_such_tool"
    /\ last_dispatch.result.error = "Unknown tool"
    /\ pc = "awaiting_model"
    /\ Len(log) > 0

\* C10: when the reasoning-engine call fails at iteration i the loop returns
\* the error report of iteration i at once: that call is the last step of the
\* run, and the log, the transcript and the simulation object stay as they were.
C10_TransportErrorAborts ==
    [][ /\ (response.kind = "none" /\ response'.kind = "error"
              /\ response'.text = "transport")
           => /\ pc' = "done"
              /\ response'.iteration = i
              /\ engine_calls' = engine_calls + 1
              /\ log' = log /\ conversation' = conversation /\ net' = net
        /\ (pc = "awaiting_model" /\ engine_calls' = engine_calls + 1
              /\ conversation' = conversation /\ response'.kind # "final")
           => (pc' = "done" /\ response'.kind = "error")
        /\ ~(response.kind = "error") ]_vars

\* the engine call failed after tools had been executed and logged
C10_Witness ==
    /\ response.kind = "error" /\ response.text = "transport"
    /\ pc = "done"
    /\ Len(log) > 0
    /\ agent = "iterative"

\* C11: every terminal path of the loops returns a non-empty report string,
\* also when the reasoning engine requests no tool and supplies no text.
C11_ReportNeverEmpty ==
    (pc = "done") => (response.text # "")

AssistantTurns == {p \in DOMAIN conversation : conversation[p].role = "assistant"}

\* C13: the tools one engine turn requests are dispatched one at a time in
\* the order requested, against the simulation object the previous tool
\* left; each result is logged and appended as a tool-result turn before the
\* next tool starts, and the next engine call happens only after all results
\* are appended.
C13_InOrderExecution ==
    /\ [](\A p \in AssistantTurns :
            LET calls == conversation[p].calls IN
            \A k \in 1..Len(calls) :
                (p + k <= Len(conversation)) =>
                    /\ conversation[p + k].role = "tool"
                    /\ conversation[p + k].id = calls[k])
    /\ [][ /\ (engine_calls' # engine_calls) => (pending = <<>>)
           /\ (pc = "executing" /\ log' # log) =>
                 /\ Len(log') = Len(log) + 1
                 /\ log'[Len(log')].tool = Head(pending).name
                 /\ log'[Len(log')].args = Head(pending).args
                 /\ last_dispatch'.before = net
                 /\ last_dispatch'.after = net'
           /\ (pc = "executing" /\ conversation' # conversation) =>
                 /\ log' # log
                 /\ conversation' =
                       Append(conversation,
                              ToolTurn(Head(pending).id, log'[Len(log')].result))
                 /\ pending' = Tail(pending)
           /\ (pc = "executing" /\ pc' = "awaiting_model") => (pending' = <<>>) ]_vars

\* a turn of two requests was answered in order and the engine called again
C13_Witness ==
    /\ turn_len = 2
    /\ engine_calls = 2
    /\ pc = "executing"
    /\ Len(conversation) = 6
    /\ conversation[4].id = conversation[3].calls[1]
    /\ conversation[5].id = conversation[3].calls[2]
    /\ conversation[4].id # conversation[5].id

\* C17: the reasoning-engine-driven fix loop makes at most 3 x max_iterations
\* engine calls and, when every call requests a tool, ends with the
\* max-iterations report.
C17_FixLoopEndsExhausted ==
    /\ (agent = "iterative") => (engine_calls <= LlmLoopFactor * max_iterations)
    /\ (agent = "iterative" /\ pc = "done" /\ EngineAlwaysRequestedTools)
          => (response = ExhaustedResponse)

\* C20: in the reasoning-engine-driven fix loop the controller has called the
\* solver after a modification tool changed the simulation object, before it
\* asks the engine again or returns.
C20_ControllerSolvesAfterMutation ==
    (/\ agent = "iterative"
     /\ pc \in {"awaiting_model", "done"}
     /\ Modifiable(net) # Modifiable(original_net))
        => net.runpp_calls > 0

\* C21: an engine answer without tool requests ends the loop in that step:
\* its text is the report, and the step dispatches no tool, appends nothing
\* to the log or the transcript, leaves the simulation object alone; no step
\* (so no engine call) follows a returned report.
C21_ZeroToolAnswerIsFinal ==
    [][ /\ (response'.kind = "final" /\ response.kind # "final") =>
              /\ pc = "awaiting_model"
              /\ pc' = "done"
              /\ engine_calls' = engine_calls + 1
              /\ response'.text \in {"text", ""}
              /\ log' = log
              /\ conversation' = conversation
              /\ pending' = pending
              /\ net' = net
              /\ last_dispatch' = last_dispatch
        /\ (response.kind = "final") => (engine_calls' = engine_calls) ]_vars

\* the engine gave its final text after a tool turn had been served
C21_Witness ==
    /\ pc = "done"
    /\ response = FinalResponse("text")
    /\ Len(log) > 0
    /\ engine_calls = 2

\* every request of the assistant turn at position p is followed, in request
\* order, by its tool-result turn, and then by nothing or the next engine turn
TurnAnswered(p) ==
    LET calls == conversation[p].calls IN
    /\ p + Len(calls) <= Len(conversation)
    /\ \A k \in 1..Len(calls) :
          /\ conversation[p + k].role = "tool"
          /\ conversation[p + k].id = calls[k]
    /\ (p + Len(calls) < Len(conversation))
          => (conversation[p + Len(calls) + 1].role = "assistant")

\* C27: whenever the reasoning engine is about to be called, the transcript
\* starts with the system and the user turn, and every request of every
\* engine turn has exactly one tool-result turn with its id, in request
\* order, before the next engine turn; a turn not answered in full and no
\* longer being processed belongs to a run that has ended with the error
\* report, with no engine call made after that turn.
C27_TranscriptWellFormed ==
    /\ (pc = "awaiting_model") =>
          /\ Len(conversation) >= 2
          /\ conversation[1] = SystemTurn
          /\ conversation[2] = UserTurn
          /\ \A p \in 3..Len(conversation) : conversation[p].role \in {"assistant", "tool"}
          /\ \A p \in AssistantTurns : TurnAnswered(p)
          /\ Cardinality({p \in DOMAIN conversation : conversation[p].role = "tool"})
                = Len(log)
    /\ \A p \in AssistantTurns :
          (~TurnAnswered(p) /\ pc # "executing") =>
              /\ pc = "done"
              /\ response.kind = "error"
              /\ response.text # "transport"
              /\ engine_calls = Cardinality(AssistantTurns)
              /\ \A q \in AssistantTurns : q <= p

\* two turns of two requests each were answered and the engine is called again
C27_Witness ==
    /\ pc = "awaiting_model"
    /\ turn_len = 2
    /\ engine_calls = 2
    /\ Len(conversation) = 8

\* C30: a modification tool requested in the analysis loop is answered with
\* the Unknown-tool error, the call leaves the simulation object unchanged,
\* and the loop goes on (the answer is logged and appended as a tool-result
\* turn; the run does not end with an error of that call); the same name in
\* the fix loop is dispatched to the modification tool.
C30_NoModificationInAnalysisLoop ==
    /\ \A name \in ModificationToolNames :
       \A args \in ArgKinds \ {"malformed"} :
       \A outcome \in ToolOutcomes :
          /\ ExecuteTool("agentic", net, name, args, outcome)
                = [result |-> [NoResult EXCEPT !.error = "Unknown tool", !.value = name],
                   net |-> net]
          /\ ExecuteTool("iterative", net, name, args, outcome).result.error
                # "Unknown tool"
          /\ (args = "ok" /\ outcome = "ok") =>
                ExecuteTool("iterative", net, name, args, outcome)
                   = [result |-> [NoResult EXCEPT !.value = name],
                      net |-> ToolEffect(name, net)]
    /\ (agent = "agentic" /\ last_dispatch.name \in ModificationToolNames) =>
          /\ last_dispatch.result.error = "Unknown tool"
          /\ last_dispatch.after = last_dispatch.before
          /\ log[Len(log)].tool = last_dispatch.name
          /\ log[Len(log)].result = last_dispatch.result
          /\ \E p \in DOMAIN conversation :
                /\ conversation[p].role = "tool"
                /\ conversation[p].content = last_dispatch.result
          /\ (response.kind = "error") => (response.text \in {"transport", "json decode"})
    /\ (agent = "iterative" /\ last_dispatch.name \in ModificationToolNames
          /\ last_dispatch.args = "ok" /\ last_dispatch.outcome = "ok") =>
          /\ last_dispatch.result.error = ""
          /\ last_dispatch.after = ToolEffect(last_dispatch.name, last_dispatch.before)
          /\ last_dispatch.after # last_dispatch.before

\* the analysis loop refused scale_all_loads and called the engine again
C30_Witness ==
    /\ agent = "agentic"
    /\ last_dispatch.name = "scale_all_loads"
    /\ last_dispatch.result.error = "Unknown tool"
    /\ pc = "awaiting_model"
    /\ engine_calls >= 1
    /\ net = original_net

-----------------------------------------------------------------------------
(* Properties of the deterministic fallback (checked under SpecFallback) *)

\* positions of the fix history that hold a verification entry
VerificationEntries == {k \in DOMAIN log : log[k].action = "verification"}

\* the verify step of the current iteration found the solver converged and
\* counted zero outstanding issues
VerifiedClean ==
    /\ pc \in {"fb_solve", "fb_fix", "fb_report", "done"}
    /\ converged
    /\ TotalIssues(net.res) = 0

\* C2: once a verify step finds the solver converged with zero issues, the
\* loop has stopped on that iteration: no fix step follows, the simulation
\* object is as the last fix (if any) left it, and the fix history ends with
\* its only verification entry, which carries that iteration and
\* converged = true, whatever iteration budget remains.
C2_SuccessCheckStops ==
    VerifiedClean =>
        /\ pc \in {"fb_report", "done"}
        /\ Len(log) > 0
        /\ log[Len(log)] = VerificationEntry(i)
        /\ log[Len(log)].converged
        /\ VerificationEntries = {Len(log)}
        /\ Len(log) > 1 => Modifiable(net) = Modifiable(last_dispatch.after)

\* the success check ended a run after two fixes, with budget to spare
C2_Witness ==
    /\ VerifiedClean
    /\ pc = "done"
    /\ Len(log) = 3
    /\ i + 1 < max_iterations

\* the fallback handles a voltage_violation case whose undervoltage finding
\* lists a bus
VoltageCase ==
    /\ category = "voltage_violation"
    /\ UndervoltageRule(findings) # <<>>
    /\ UndervoltageRule(findings)[1].evidence.buses # <<>>

FirstUndervoltageBus == UndervoltageRule(findings)[1].evidence.buses[1].index

\* iteration 0 applied the compensation fix
CompensationApplied ==
    /\ Len(log) > 0
    /\ log[1].action = "add_reactive_compensation"

AppliedFixes ==
    {k \in DOMAIN log : log[k].action \notin {"verification", "no_fix_available"}}

\* C4: for category nonconvergence every entry of iteration 0 that is not the
\* success check is scale_all_loads with factor 0.8, and every such entry of
\* iteration 1 is scale_all_loads with factor 0.7, whatever rules were
\* triggered and whatever the simulation object holds.
C4_NonconvergenceOrdering ==
    category = "nonconvergence" =>
        \A k \in DOMAIN log :
            (log[k].action # "verification" /\ log[k].iteration \in {0, 1}) =>
                /\ k \in AppliedFixes
                /\ log[k].action = "scale_all_loads"
                /\ log[k].args = <<IF log[k].iteration = 0 THEN FirstScaleFactor
                                   ELSE SecondScaleFactor>>

\* both load reductions were applied: 100 MW became 80 MW, then 56 MW
C4_Witness ==
    /\ category = "nonconvergence"
    /\ Len(log) >= 2
    /\ {1, 2} \subseteq AppliedFixes
    /\ log[1].args = <<FirstScaleFactor>>
    /\ log[2].args = <<SecondScaleFactor>>
    /\ log[2].iteration = 1
    /\ net.load = 56

\* C14: when the fallback loop has ended, the solver has been called on the
\* simulation object after the last fix applied to it, also when that fix
\* was applied in the last permitted iteration.
C14_SolvedAfterEveryFix ==
    (/\ pc \in {"fb_report", "done"}
     /\ last_dispatch.name # ""
     /\ last_dispatch.outcome = "ok")
        => net.runpp_calls > last_dispatch.after.runpp_calls

\* C16: a modification tool or a constraint check that fails does not abort
\* the fallback: no exception leaves the run.
C16_FallbackContainsToolFailure == pc # "raised"

\* no heuristic branch matches (category, iteration)
NoBranchMatches ==
    \/ /\ i = 0
       /\ category \notin {"nonconvergence", "thermal_overload"}
       /\ ~VoltageCase
    \/ i = 2 /\ Len(net.ext_grid) = 0
    \/ i = 3 /\ DisabledGens(net) = {}
    \/ i >= 4

\* positions of the fix history that signal exhaustion
ExhaustionEntries == {k \in DOMAIN log : log[k].action = "no_fix_available"}

\* C15: when no heuristic branch matches (category, i) the fix step appends
\* the entry no_fix_available of iteration i, leaves the simulation object as
\* it is and ends the loop; such an entry is the only one of its kind and the
\* last of the history, and no iteration runs after it.
C15_ExhaustionStops ==
    /\ [](\A k \in ExhaustionEntries :
             /\ k = Len(log)
             /\ pc \in {"fb_report", "done"}
             /\ log[k] = NoFixEntry(i))
    /\ [][ (pc = "fb_fix" /\ NoBranchMatches) =>
              /\ log' = Append(log, NoFixEntry(i))
              /\ net' = net
              /\ i' = i
              /\ pc' = "fb_report" ]_vars

\* no ext_grid to adjust at iteration 2: the run ended on the exhaustion entry
\* after two applied fixes
C15_Witness ==
    /\ pc = "done"
    /\ Len(log) = 3
    /\ log[3] = NoFixEntry(2)
    /\ {1, 2} \subseteq AppliedFixes
    /\ net.ext_grid = <<>>

\* C18: when the solve at the head of an iteration raises or does not
\* converge, the iteration counts as not converged: no verification entry is
\* written, the loop is still in the same iteration with the simulation
\* inputs untouched, and its next step selects and records the fix of that
\* iteration.
C18_FailedSolveGoesOn ==
    /\ [][ (pc = "fb_solve" /\ ~converged') =>
              /\ pc' = "fb_fix"
              /\ log' = log
              /\ i' = i
              /\ Modifiable(net') = Modifiable(net) ]_vars
    /\ [][ (pc = "fb_fix" /\ ~converged /\ pc' # "raised") =>
              /\ log' = Append(log, ApplyAutomatedFix(net, category, findings, i).entry)
              /\ log'[Len(log')].action # "verification"
              /\ log'[Len(log')].iteration = i ]_vars

\* the solve that verified the first fix raised, leaving the stale flag of
\* the solve before it, and the loop went on to apply the second fix
C18_Witness ==
    /\ Len(log) = 2
    /\ {1, 2} \subseteq AppliedFixes
    /\ i = 2
    /\ ~converged
    /\ net.converged

\* C28: whatever max_iterations is, the fallback applies at most four
\* modifications in one run, one each at iterations 0 to 3; an entry of
\* iteration 4 or more is the success check or no_fix_available; the history
\* never has more than min(max_iterations, 5) entries.
C28_AtMostFourModifications ==
    /\ Cardinality(AppliedFixes) <= 4
    /\ \A k \in AppliedFixes : log[k].iteration \in 0..3
    /\ \A j, k \in AppliedFixes : log[j].iteration = log[k].iteration => j = k
    /\ \A k \in DOMAIN log :
          log[k].iteration >= 4 => log[k].action \in {"verification", "no_fix_available"}
    /\ Len(log) <= (IF max_iterations < 5 THEN max_iterations ELSE 5)
    /\ net.runpp_calls <= (IF max_iterations < 5 THEN max_iterations ELSE 5)

\* four modifications applied and the fifth iteration found no strategy,
\* with more iterations still permitted
C28_Witness ==
    /\ pc = "done"
    /\ max_iterations > 5
    /\ Len(log) = 5
    /\ AppliedFixes = 1..4
    /\ log[5] = NoFixEntry(4)

\* C29: each iteration of the fallback loop appends exactly one entry, the
\* iteration fields of the history are 0, 1, 2, ... without gaps, and an
\* entry with action verification or no_fix_available is the last entry.
C29_HistoryShape ==
    /\ \A k \in DOMAIN log :
          /\ log[k].iteration = k - 1
          /\ log[k].action \in {"verification", "no_fix_available"} => k = Len(log)
    /\ pc = "fb_solve" => Len(log) = i
    /\ pc = "fb_fix" => Len(log) = i

\* three fixes followed by the success check of iteration 3
C29_Witness ==
    /\ pc = "done"
    /\ Len(log) = 4
    /\ AppliedFixes = 1..3
    /\ log[4] = VerificationEntry(3)

-----------------------------------------------------------------------------
(* Properties of the fix strategies together (checked under SpecDiagnose) *)

\* what the modification recorded by one history entry does to a simulation
\* object: an entry of the reasoning-engine loop names the tool and holds its
\* result, an entry of the fallback names the action and its arguments
EffectOfEntry(e, n) ==
    IF "tool" \in DOMAIN e
    THEN IF e.tool \in ModificationToolNames /\ e.result.error = ""
         THEN ToolEffect(e.tool, n)
         ELSE n
    ELSE IF e.action = "scale_all_loads" THEN ScaleAllLoads(n, e.args[1])
    ELSE IF e.action = "add_reactive_compensation"
         THEN AddReactiveCompensation(n, e.args[1], e.args[2])
    ELSE IF e.action = "adjust_voltage_setpoint"
         THEN AdjustVoltageSetpoint(n, e.args[2], e.args[3])
    ELSE IF e.action = "toggle_element" THEN ToggleElement(n, e.args[2], e.args[3])
    ELSE n

\* the simulation object obtained by applying a history, in order, to n
RECURSIVE Replay(_, _)
Replay(n, history) ==
    IF history = <<>> THEN n
    ELSE Replay(EffectOfEntry(Head(history), n), Tail(history))

\* C19: the fix history accounts for every modification: applying its entries
\* in order to the original simulation object gives the inputs the
\* simulation object has now, in every state of a run of either fix strategy
\* that has not been aborted by an exception.
C19_HistoryIsAuditTrail ==
    (agent = "iterative" /\ pc # "raised") =>
        Modifiable(net) = Modifiable(Replay(original_net, log))

\* the fallback returned after three recorded modifications: compensation,
\* load reduction to 70% and the raised slack setpoint
C19_Witness ==
    /\ agent = "iterative"
    /\ pc = "done"
    /\ Len(log) >= 3
    /\ net.shunts # <<>>
    /\ net.load = 70
    /\ net.ext_grid = <<SlackSetpoint>>
    /\ Modifiable(net) # Modifiable(original_net)

-----------------------------------------------------------------------------
(* Properties of preprocessing (checked under SpecPre) *)

Categories ==
    {"no_failure_detected", "nonconvergence", "thermal_overload",
     "voltage_violation", "other"}

TriggeredNames == {findings[k].rule_name : k \in DOMAIN findings}

\* C5: classify_failure yields exactly one of the five categories, by the
\* precedence nonconvergence > thermal > voltage > other, and
\* no_failure_detected exactly when no rule triggered.
C5_ClassificationPrecedence ==
    (pc = "preprocessed") =>
        LET nonconv == "nonconvergence" \in TriggeredNames
            thermal == TriggeredNames \cap {"line_overload", "trafo_overload"} # {}
            voltage == TriggeredNames \cap {"undervoltage", "overvoltage"} # {}
        IN /\ category \in Categories
           /\ (category = "no_failure_detected") <=> (findings = <<>>)
           /\ (category = "nonconvergence") <=> nonconv
           /\ (category = "thermal_overload") <=> (~nonconv /\ thermal)
           /\ (category = "voltage_violation") <=> (~nonconv /\ ~thermal /\ voltage)
           /\ (category = "other") <=>
                  (findings # <<>> /\ ~nonconv /\ ~thermal /\ ~voltage)

\* a converged case with both an overload and an under-voltage finding is
\* classified thermal_overload
C5_Witness ==
    /\ pc = "preprocessed"
    /\ category = "thermal_overload"
    /\ "undervoltage" \in TriggeredNames

\* C6: whatever the order of the rule list, evaluate yields the same triggered
\* findings (names, severities, evidence) as in declaration order, and
\* classify_failure the same category.
C6_OrderIndependent ==
    (pc = "preprocessed") =>
        LET declared == Evaluate(report) IN
        /\ {findings[k] : k \in DOMAIN findings} = {declared[k] : k \in DOMAIN declared}
        /\ Len(findings) = Len(declared)
        /\ category = ClassifyFailure(declared)

\* several rules triggered under a permuted rule list, in another output order
C6_Witness ==
    /\ pc = "preprocessed"
    /\ rule_order # AllRules
    /\ Len(findings) >= 3
    /\ findings # Evaluate(report)

InServiceRows(table) == {k \in DOMAIN table : table[k].in_service}

\* C7: a report with converged = false has every result-table field unset and
\* its input fields and load totals populated from the network's inputs.
C7_UnconvergedReport ==
    (pc = "preprocessed" /\ ~report.converged) =>
        /\ report.voltage_min_pu = None
        /\ report.voltage_max_pu = None
        /\ report.voltage_mean_pu = None
        /\ report.max_line_loading_pct = None
        /\ report.max_trafo_loading_pct = None
        /\ report.undervoltage_buses = <<>>
        /\ report.overvoltage_buses = <<>>
        /\ report.overloaded_lines = <<>>
        /\ report.overloaded_trafos = <<>>
        /\ report.gens_at_q_limit = <<>>
        /\ report.input_load_count = Cardinality(InServiceRows(net.load))
        /\ Len(report.input_load_details) = Cardinality(InServiceRows(net.load))
        /\ \A k \in DOMAIN report.input_load_details :
              LET d == report.input_load_details[k] IN
              /\ (d.index + 1) \in InServiceRows(net.load)
              /\ d.p_mw = net.load[d.index + 1].p_mw
              /\ d.bus = net.load[d.index + 1].bus
        /\ report.input_gen_count = Cardinality(InServiceRows(net.gen))
        /\ Len(report.input_gen_details) = Cardinality(InServiceRows(net.gen))
        /\ report.input_ext_grid_count = Cardinality(InServiceRows(net.ext_grid))
        /\ report.input_gen_capacity_mw =
              SumOf([k \in DOMAIN net.gen |->
                        IF net.gen[k].max_p_mw # None THEN net.gen[k].max_p_mw
                        ELSE net.gen[k].p_mw],
                    InServiceRows(net.gen))
        /\ report.total_load_p_mw =
              SumOf([k \in DOMAIN net.load |-> net.load[k].p_mw],
                    InServiceRows(net.load))
        /\ report.total_load_q_mvar =
              SumOf([k \in DOMAIN net.load |-> net.load[k].q_mvar],
                    InServiceRows(net.load))

\* an unconverged network that still holds result tables of an earlier solve,
\* with loads and a generator in service
C7_Witness ==
    /\ pc = "preprocessed"
    /\ ~report.converged
    /\ Len(net.res_bus) > 0 /\ Len(net.res_line) > 0
    /\ report.input_load_count > 0
    /\ report.input_gen_count > 0

\* noise_warnings of EvidenceReport.to_text
NoiseWarnings == {"test_continuous_bus_indices", "test_bus_indices_type"}

\* C22: the report produced by collect holds none of the two suppressed
\* checks among its diagnostic results, whatever the diagnostic routine
\* returned.
C22_NoiseNeverInReport ==
    (pc = "preprocessed") => (report.diagnostic_results \cap NoiseWarnings = {})

\* the triggered finding of a rule
FindingOf(name) == findings[CHOOSE k \in DOMAIN findings : findings[k].rule_name = name]

\* C23: for a report with converged = false, zero generation and positive
\* total load, both generation_deficit and nonconvergence trigger and the
\* category is nonconvergence, whatever else triggers.
C23_UnconvergedWithDeficit ==
    (/\ pc = "preprocessed"
     /\ ~report.converged
     /\ report.total_gen_p_mw = 0
     /\ report.total_load_p_mw > 0)
        => /\ {"generation_deficit", "nonconvergence"} \subseteq TriggeredNames
           /\ FindingOf("nonconvergence").severity = "critical"
           /\ FindingOf("generation_deficit").severity = "critical"
           /\ category = "nonconvergence"

\* an unconverged network with load in service and disconnected elements
C23_Witness ==
    /\ pc = "preprocessed"
    /\ ~report.converged
    /\ report.total_gen_p_mw = 0
    /\ report.total_load_p_mw > 0
    /\ "disconnected_elements" \in TriggeredNames
    /\ Len(findings) >= 4

\* a converged report with exactly one under-voltage bus, every other bus
\* inside the band, and no overloaded line or transformer
SingleUndervoltage ==
    /\ pc = "preprocessed"
    /\ report.converged
    /\ Len(report.undervoltage_buses) = 1
    /\ report.overvoltage_buses = <<>>
    /\ report.overloaded_lines = <<>>
    /\ report.overloaded_trafos = <<>>

\* C24 as stated: in the single-undervoltage case undervoltage is the only
\* finding, with severity warning and one bus, and the category is
\* voltage_violation.
C24_OnlyUndervoltage ==
    SingleUndervoltage =>
        /\ Len(findings) = 1
        /\ findings[1].rule_name = "undervoltage"
        /\ findings[1].severity = "warning"
        /\ Len(findings[1].evidence.buses) = 1
        /\ category = "voltage_violation"

\* the rules whose trigger does not depend on bus voltages inside or outside
\* the band nor on loadings
OtherRules ==
    {"generation_deficit", "reactive_deficit", "disconnected_elements",
     "gen_at_q_limit", "extreme_voltage_spread"}

\* C24, amended: in the single-undervoltage case the undervoltage finding is
\* returned with severity warning and a one-bus evidence list, the category
\* is voltage_violation, and nonconvergence, overvoltage and the overload
\* rules do not trigger; undervoltage is the only finding exactly when none
\* of generation_deficit, reactive_deficit, disconnected_elements,
\* gen_at_q_limit and extreme_voltage_spread triggers, which needs generation
\* within 10% of load (20% for reactive power), no disconnected element
\* reported, no generator at a reactive limit and a spread of at most 0.15 pu.
C24_UndervoltageAmongOthers ==
    SingleUndervoltage =>
        /\ "undervoltage" \in TriggeredNames
        /\ FindingOf("undervoltage").severity = "warning"
        /\ Len(FindingOf("undervoltage").evidence.buses) = 1
        /\ category = "voltage_violation"
        /\ TriggeredNames \subseteq ({"undervoltage"} \cup OtherRules)
        /\ (Len(findings) = 1) <=>
              /\ 10 * (report.total_load_p_mw - report.total_gen_p_mw)
                    <= report.total_load_p_mw
              /\ 10 * (report.total_load_q_mvar - report.total_gen_q_mvar)
                    <= 2 * report.total_load_q_mvar
              /\ "DisconnectedElements" \notin report.diagnostic_results
              /\ report.gens_at_q_limit = <<>>
              /\ report.voltage_max_pu - report.voltage_min_pu <= 15

\* one bus at 0.90 pu and undervoltage as the only finding
C24_Witness ==
    /\ SingleUndervoltage
    /\ report.voltage_min_pu = 90
    /\ Len(findings) = 1
    /\ category = "voltage_violation"

\* C25: undervoltage (overvoltage) triggers exactly when the report lists an
\* under-voltage (over-voltage) bus; the finding is a warning for 1 to 3
\* listed buses and critical for more than 3.
C25_VoltageRuleSeverity ==
    (pc = "preprocessed") =>
        /\ ("undervoltage" \in TriggeredNames) <=> (Len(report.undervoltage_buses) >= 1)
        /\ ("overvoltage" \in TriggeredNames) <=> (Len(report.overvoltage_buses) >= 1)
        /\ ("undervoltage" \in TriggeredNames) =>
              FindingOf("undervoltage").severity =
                 IF Len(report.undervoltage_buses) \in 1..3 THEN "warning" ELSE "critical"
        /\ ("overvoltage" \in TriggeredNames) =>
              FindingOf("overvoltage").severity =
                 IF Len(report.overvoltage_buses) \in 1..3 THEN "warning" ELSE "critical"

\* more than three under-voltage buses: the finding is critical
C25_Witness ==
    /\ pc = "preprocessed"
    /\ Len(report.undervoltage_buses) > 3
    /\ "undervoltage" \in TriggeredNames
    /\ FindingOf("undervoltage").severity = "critical"

====
